---------------------------- MODULE Spec2Model ----------------------------
(***************************************************************************)
(* Model of the text-to-audio generation pipeline of chatterbox-Audiobook: *)
(*   - RunPodClient.generate_tts / generate_speech (submit + poll loop),   *)
(*   - TextProcessor.chunk_text (sentence chunking),                       *)
(*   - AudioProcessor.combine_audio_chunks (crossfade assembly),           *)
(*   - TTSEngine.process_text_chunks and the /tts/generate endpoint.       *)
(***************************************************************************)
EXTENDS Integers, Naturals, Sequences, FiniteSets, TLC

VARIABLES
    \* ---- RunPodClient call (src/audiobook/api/runpod_client.py) ----
    method,        \* which client method is being executed
    pc,            \* position of the call: start, loop, poll, sleep, done
    elapsed,       \* time.time() - start_time, in whole seconds
    posts,         \* number of POST /run requests issued by the call
    lastPollAt,    \* value of elapsed when the last GET /status was issued, -1 if none
    submitResp,    \* outcome of the POST /run ("none" before it)
    lastPoll,      \* outcome of the last GET /status
    timeoutsInRow, \* number of status requests in a row that timed out
    result,        \* value returned by the call
    cancel_requested, \* the caller wants the running call to stop
    consecutive_timeouts, \* the local variable of that name of clone_voice
    \* ---- TextProcessor.chunk_text (src/audiobook/tts/text_processor.py) ----
    text,          \* the text argument, a sequence of characters
    max_words,     \* the max_words argument
    chunks,        \* the returned list of TextChunk
    cpc,           \* "input" before the call, "chunked" after it
    depth,         \* frames of adaptive_chunk_text on the stack
    \* ---- AudioProcessor.combine_audio_chunks (src/audiobook/tts/audio_processor.py) ----
    audio_chunks,        \* the list of audio segments
    crossfade_duration,  \* crossfade_duration * sample_rate, counted in half samples
    final_audio,         \* the value combine_audio_chunks ended with
    apc,                 \* "input" before the call, "combined" after it
    \* ---- POST /tts/generate (src/audiobook/api/endpoints.py) and
    \*      TTSEngine (src/audiobook/tts/engine.py) ----
    ppc,                  \* position of the request: synth, assemble, done
    text_chunks,          \* the chunks handed to process_text_chunks, by number
    loop_i,               \* index of the chunk process_text_chunks is at
    attempt,              \* loop variable of generate_with_retry
    device,               \* TTSEngine.device
    model,                \* device of TTSEngine.model, or "None"
    attempted,            \* numbers of the chunks model.generate was called for
    failed,               \* numbers of the chunks whose generation raised
    enable_normalization, \* processing_settings.enable_normalization
    outcome,              \* how the request ended: none, assembled, http_500
    calls,                \* the calls of self.model.generate made so far
    \* ---- AudioProcessor.normalize_audio (src/audiobook/tts/audio_processor.py) ----
    audio_data,           \* the buffer argument, a sequence of sample values
    target_db,            \* the target_db argument
    norm_method,          \* the method argument: "rms" or "peak"
    normalized_audio,     \* the value normalize_audio ended with
    npc,                  \* "input" before the call, "normalized" after it
    \* ---- serverless handler (runpod_deploy/handler.py) ----
    hpc,                  \* position of the request: start, a request handler, done
    request,              \* event["input"], by the keys the handler reads
    temp_files,           \* the temporary directories and files that exist
    response              \* the dict the handler returned

clientVars == <<method, pc, elapsed, posts, lastPollAt, submitResp, lastPoll,
                timeoutsInRow, result, cancel_requested, consecutive_timeouts>>

chunkVars == <<text, max_words, chunks, cpc, depth>>

audioVars == <<audio_chunks, crossfade_duration, final_audio, apc>>

pipeVars == <<ppc, text_chunks, loop_i, attempt, device, model, attempted,
              failed, enable_normalization, outcome, calls>>

normVars == <<audio_data, target_db, norm_method, normalized_audio, npc>>

handlerVars == <<hpc, request, temp_files, response>>

vars == <<method, pc, elapsed, posts, lastPollAt, submitResp, lastPoll,
          timeoutsInRow, result, cancel_requested, consecutive_timeouts, text, max_words, chunks, cpc, depth,
          audio_chunks, crossfade_duration, final_audio, apc,
          ppc, text_chunks, loop_i, attempt, device, model, attempted,
          failed, enable_normalization, outcome, calls,
          audio_data, target_db, norm_method, normalized_audio, npc,
          hpc, request, temp_files, response>>

(***************************************************************************)
(*                     RunPodClient: submit and poll                       *)
(***************************************************************************)

Methods == {"generate_tts", "generate_speech"}

\* max_wait_time = 300 in both generate_tts and generate_speech, 120 in
\* clone_voice, 600 in convert_voice
max_wait_time(m) ==
    CASE m = "clone_voice" -> 120
      [] m = "convert_voice" -> 600
      [] OTHER -> 300

\* poll_interval = 2 in both generate_tts and generate_speech, 5 in
\* clone_voice and convert_voice
poll_interval(m) == IF m \in {"clone_voice", "convert_voice"} THEN 5 ELSE 2

\* timeout=10 of requests.get
status_request_timeout == 10

\* max_consecutive_timeouts = 3 (clone_voice)
max_consecutive_timeouts == 3

\* Values the backend can put under the "error" key; str() keeps "" empty.
ErrorValues == {"", "boom"}

\* Ways the POST /run can end: requests.Timeout ("timeout"), another
\* exception of requests ("http_error"), an exception that is none of
\* requests ("exception", e.g. of response.json()), or a JSON body.
SubmitOutcomes ==
    [kind : {"timeout", "exception", "http_error", "no_id", "ok"}, error : {"absent"}]
    \cup [kind : {"error_key"}, error : ErrorValues]

\* Status strings: the five of the wire contract plus one unknown string.
Statuses == {"QUEUED", "RUNNING", "COMPLETED", "FAILED", "CANCELLED", "IN_PROGRESS"}

\* Shapes of the "output" member of a status response.
Outputs == {"absent", "null", "no_audio", "valid", "corrupt"}

NoPoll == [kind |-> "none", status |-> "none", error |-> "absent", output |-> "absent"]

\* Ways one GET /status can end: an exception of requests, or a JSON body.
\* The code reads "output" only of a COMPLETED response, so the other
\* responses are enumerated without one.
PollOutcomes ==
    [kind : {"timeout", "conn_error", "http_error", "http_404"}, status : {"none"},
     error : {"absent"}, output : {"absent"}]
    \cup [kind : {"json"}, status : Statuses \ {"COMPLETED"},
          error : {"absent"} \cup ErrorValues, output : {"absent"}]
    \cup [kind : {"json"}, status : {"COMPLETED"},
          error : {"absent"} \cup ErrorValues, output : Outputs]

\* Seconds one status request can take: immediate, short, or the full
\* request timeout.
PollDurations == {0, 1, status_request_timeout}

NoResult == [returned |-> FALSE, type |-> "none", ok |-> FALSE, audio |-> "None", msg |-> ""]

\* generate_tts and convert_voice return the tuple (audio_data, error_message);
\* generate_speech and clone_voice return RunPodResult(is_success, message),
\* which carries no audio.
Ret(m, ok, audio, msg) ==
    [returned |-> TRUE,
     type |-> IF m \in {"generate_tts", "convert_voice"} THEN "tuple" ELSE "RunPodResult",
     ok |-> ok,
     audio |-> IF m \in {"generate_tts", "convert_voice"} THEN audio ELSE "None",
     msg |-> msg]

Failure(m, msg) == Ret(m, FALSE, "None", msg)

\* The outer `except Exception` of each method.
OuterExceptMsg(m) ==
    IF m = "generate_tts" THEN "Error generating TTS: " ELSE "Unexpected error: "

TimedOutMsg == "TTS generation timed out"

\* The error returned when the wait budget is exceeded.
BudgetMsg(m) ==
    CASE m = "clone_voice" ->
            "RunPod endpoint not responding. Please check if your endpoint is running in the RunPod console."
      [] m = "convert_voice" -> "Voice conversion timed out after 10 minutes"
      [] OTHER -> TimedOutMsg

\* The error returned by clone_voice after too many timeouts in a row.
TooManyTimeoutsMsg ==
    "RunPod endpoint is not responding. Please check if the endpoint is running in your RunPod console."

\* The budget check taken one loop iteration too late.
BudgetExceeded_late(m, e) ==
    e > max_wait_time(m) + status_request_timeout + poll_interval(m)

\* if time.time() - start_time > max_wait_time
BudgetExceeded(m, e) == e > max_wait_time(m)

\* A submission that goes on to the poll loop whatever the answer was.
SubmitNextPc_always(o) == "loop"

\* After the POST: the poll loop is entered only with a job id.
SubmitNextPc(o) == IF o.kind = "ok" THEN "loop" ELSE "done"

\* The return value decided by a submission that did not yield a job id.
SubmitFailure(m, o) ==
    CASE o.kind = "exception" ->
            Failure(m, IF m \in {"clone_voice", "convert_voice"}
                         THEN "Unexpected error: " ELSE OuterExceptMsg(m))
      [] o.kind = "timeout" ->
            Failure(m, IF m \in {"clone_voice", "convert_voice"}
                         THEN "Timeout while submitting job to RunPod"
                         ELSE OuterExceptMsg(m))
      [] o.kind = "http_error" ->
            Failure(m, IF m \in {"clone_voice", "convert_voice"}
                         THEN "Error submitting job: " ELSE OuterExceptMsg(m))
      [] o.kind = "error_key" -> Failure(m, o.error)
      [] o.kind = "no_id" -> Failure(m, "Invalid response format")

\* A count that a successful status request leaves as it is.
CountTimeouts_noreset(m, o, c) ==
    IF m = "clone_voice" /\ o.kind = "timeout" THEN c + 1 ELSE c

\* consecutive_timeouts after a status request: clone_voice counts the
\* requests.Timeout in a row and resets the count after raise_for_status;
\* the other methods have no such variable.
CountTimeouts(m, o, c) ==
    IF m # "clone_voice" THEN c
    ELSE CASE o.kind = "timeout" -> c + 1
           [] o.kind = "json" -> 0
           [] OTHER -> c

\* A poll loop in which a timed-out status request ends every method's call.
PollReturns_timeout_ends(m, o, c) ==
    \/ o.kind \in {"timeout", "conn_error", "http_error", "http_404"}
    \/ o.kind = "json" /\ o.error # "absent"
    \/ o.kind = "json" /\ o.status \in {"COMPLETED", "FAILED", "CANCELLED"}

\* Whether the handling of a poll outcome returns from the method; c is
\* consecutive_timeouts after the request.
PollReturns(m, o, c) ==
    \/ o.kind \in {"conn_error", "http_error", "http_404"}
    \/ o.kind = "timeout" /\ m \in {"generate_tts", "generate_speech"}
    \/ o.kind = "timeout" /\ m = "clone_voice" /\ c >= max_consecutive_timeouts
    \/ o.kind = "json" /\ o.error # "absent"
    \/ o.kind = "json" /\ o.status \in {"COMPLETED", "FAILED", "CANCELLED"}

\* The error returned for an exception of the status request.
StatusErrorMsg(m, o) ==
    CASE m \in {"generate_tts", "generate_speech"} -> "Error checking status: "
      [] m = "clone_voice" /\ o.kind = "timeout" -> TooManyTimeoutsMsg
      [] m = "clone_voice" /\ o.kind = "http_404" ->
            "RunPod endpoint not found. Please check your endpoint ID in the RunPod console."
      [] OTHER -> "Error checking job status: "

\* The return value for a COMPLETED response: the methods that return audio
\* read output["audio_data"], the others report success.
CompletedResult(m, o) ==
    CASE m = "generate_speech" -> Ret(m, TRUE, "None", "TTS generation completed")
      [] m = "clone_voice" -> Ret(m, TRUE, "None", "Voice cloned successfully")
      [] OTHER ->
            CASE o.output = "valid" -> Ret(m, TRUE, "bytes", "")
              [] o.output = "corrupt" -> Failure(m, "Failed to decode audio data: ")
              [] o.output = "null" ->
                    Failure(m, IF m = "convert_voice" THEN "Unexpected error: "
                               ELSE OuterExceptMsg(m))
              [] OTHER -> Failure(m, "No audio data in response")

FailedMsg(m) ==
    CASE m = "clone_voice" -> "Voice cloning failed: Unknown error"
      [] m = "convert_voice" -> "Voice conversion failed: Unknown error"
      [] OTHER -> "TTS generation failed: Unknown error"

CancelledMsg(m) ==
    CASE m = "clone_voice" -> "Voice cloning was cancelled"
      [] m = "convert_voice" -> "Voice conversion was cancelled"
      [] OTHER -> "TTS generation was cancelled"

\* The return value decided by a poll outcome for which PollReturns holds.
PollResult(m, o) ==
    CASE o.kind \in {"timeout", "conn_error", "http_error", "http_404"} ->
            Failure(m, StatusErrorMsg(m, o))
      [] o.kind = "json" /\ o.error # "absent" -> Failure(m, o.error)
      [] o.kind = "json" /\ o.error = "absent" /\ o.status = "COMPLETED" ->
            CompletedResult(m, o)
      [] o.kind = "json" /\ o.error = "absent" /\ o.status = "FAILED" ->
            Failure(m, FailedMsg(m))
      [] o.kind = "json" /\ o.error = "absent" /\ o.status = "CANCELLED" ->
            Failure(m, CancelledMsg(m))

\* No client call is executed in this behaviour.
ClientIdle ==
    /\ method = "none"
    /\ pc = "idle"
    /\ elapsed = 0
    /\ posts = 0
    /\ lastPollAt = -1
    /\ submitResp = "none"
    /\ lastPoll = NoPoll
    /\ timeoutsInRow = 0
    /\ result = NoResult
    /\ cancel_requested = FALSE
    /\ consecutive_timeouts = 0

\* A call of one of the given methods, about to submit its job.
ClientStart(ms) ==
    /\ method \in ms
    /\ pc = "start"
    /\ elapsed = 0
    /\ posts = 0
    /\ lastPollAt = -1
    /\ submitResp = "none"
    /\ lastPoll = NoPoll
    /\ timeoutsInRow = 0
    /\ result = NoResult
    /\ cancel_requested = FALSE
    /\ consecutive_timeouts = 0

ClientInit == ClientStart(Methods)

\* requests.post(.../run), raise_for_status, the "error" and "id" checks,
\* start_time = time.time()
Submit ==
    /\ pc = "start"
    /\ \E o \in SubmitOutcomes :
        /\ posts' = posts + 1
        /\ submitResp' = o.kind
        /\ pc' = SubmitNextPc(o)
        /\ result' = IF o.kind = "ok" THEN result ELSE SubmitFailure(method, o)
    /\ elapsed' = 0
    /\ UNCHANGED <<method, lastPollAt, lastPoll, timeoutsInRow, cancel_requested,
                   consecutive_timeouts>>
    /\ UNCHANGED <<chunkVars, audioVars, pipeVars, normVars, handlerVars>>

\* top of `while True`: the wait budget check
CheckBudget ==
    /\ pc = "loop"
    /\ IF BudgetExceeded(method, elapsed)
         THEN /\ pc' = "done"
              /\ result' = Failure(method, BudgetMsg(method))
         ELSE /\ pc' = "poll"
              /\ result' = result
    /\ UNCHANGED <<method, elapsed, posts, lastPollAt, submitResp, lastPoll,
                   timeoutsInRow, cancel_requested, consecutive_timeouts>>
    /\ UNCHANGED <<chunkVars, audioVars, pipeVars, normVars, handlerVars>>

\* requests.get(.../status/{task_id}, timeout=10) and the handling of its answer
Poll ==
    /\ pc = "poll"
    /\ lastPollAt' = elapsed
    /\ \E o \in PollOutcomes, d \in PollDurations :
        /\ o.kind = "timeout" => d = status_request_timeout
        /\ elapsed' = elapsed + d
        /\ lastPoll' = o
        /\ timeoutsInRow' = IF o.kind = "timeout" THEN timeoutsInRow + 1 ELSE 0
        /\ consecutive_timeouts' = CountTimeouts(method, o, consecutive_timeouts)
        /\ IF PollReturns(method, o, CountTimeouts(method, o, consecutive_timeouts))
             THEN /\ pc' = "done"
                  /\ result' = PollResult(method, o)
             ELSE /\ pc' = "sleep"
                  /\ result' = result
    /\ UNCHANGED <<method, posts, submitResp, cancel_requested>>
    /\ UNCHANGED <<chunkVars, audioVars, pipeVars, normVars, handlerVars>>

\* time.sleep(poll_interval)
Sleep ==
    /\ pc = "sleep"
    /\ elapsed' = elapsed + poll_interval(method)
    /\ pc' = "loop"
    /\ UNCHANGED <<method, posts, lastPollAt, submitResp, lastPoll,
                   timeoutsInRow, result, cancel_requested, consecutive_timeouts>>
    /\ UNCHANGED <<chunkVars, audioVars, pipeVars, normVars, handlerVars>>

ClientNext == Submit \/ CheckBudget \/ Poll \/ Sleep

\* The caller decides, while the job is being polled, that the call should
\* stop. generate_tts and generate_speech take (text, voice_name, parameters):
\* no flag, event or token,
\* and RunPodClient has no attribute or method for it, so the decision
\* changes nothing the call can read.
RequestCancel ==
    /\ pc \in {"loop", "poll", "sleep"}
    /\ ~cancel_requested
    /\ cancel_requested' = TRUE
    /\ UNCHANGED <<method, pc, elapsed, posts, lastPollAt, submitResp, lastPoll,
                   timeoutsInRow, result, consecutive_timeouts>>
    /\ UNCHANGED <<chunkVars, audioVars, pipeVars, normVars, handlerVars>>

CancelNext == ClientNext \/ RequestCancel

(***************************************************************************)
(*                     TextProcessor: chunk_text                           *)
(* A text is a sequence of one-character strings; offsets are 0-based as   *)
(* in Python, so text[a:b] is SubSeq(text, a + 1, b).                      *)
(***************************************************************************)

\* Longest text enumerated.
MaxTextLen == 5

\* Largest max_words enumerated.
MaxWords == 3

\* \w of word_pattern
WordChars == {"a", "n"}

\* [.!?] of sentence_end_pattern
Terminals == {".", "!", "?"}

\* [\s"')\]] of sentence_end_pattern
Closers == {" ", "\"", "'", ")", "]"}

\* \s of whitespace_pattern, str.strip and str.split
Spaces == {" "}

\* Characters the enumerated texts are made of: a word character, white
\* space, a sentence terminal, a closing bracket and other punctuation.
Alphabet == {"a", " ", ".", ")", "-"}

Texts == UNION {[1..n -> Alphabet] : n \in 0..MaxTextLen}

\* The offset at which the run of characters of S that starts at offset i ends.
RECURSIVE SkipIn(_, _, _)
SkipIn(s, i, S) ==
    IF i < Len(s) /\ s[i + 1] \in S THEN SkipIn(s, i + 1, S) ELSE i

\* The offset of the first character of S at or after offset i, Len(s) if none.
RECURSIVE FindIn(_, _, _)
FindIn(s, i, S) ==
    IF i < Len(s) /\ s[i + 1] \notin S THEN FindIn(s, i + 1, S) ELSE i

\* str.strip()
strip(s) ==
    LET a == SkipIn(s, 0, Spaces)
        RECURSIVE LastNonSpace(_)
        LastNonSpace(j) ==
            IF j > a /\ s[j] \in Spaces THEN LastNonSpace(j - 1) ELSE j
    IN SubSeq(s, a + 1, LastNonSpace(Len(s)))

\* whitespace_pattern.sub(' ', text): every run of white space becomes one blank
RECURSIVE CollapseSpaces(_, _)
CollapseSpaces(s, i) ==
    IF i >= Len(s) THEN <<>>
    ELSE IF s[i + 1] \in Spaces
           THEN <<" ">> \o CollapseSpaces(s, SkipIn(s, i, Spaces))
           ELSE <<s[i + 1]>> \o CollapseSpaces(s, i + 1)

normalize_whitespace(s) == strip(CollapseSpaces(s, 0))

\* len(word_pattern.findall(text)): the number of maximal runs of \w
RECURSIVE CountRuns(_, _)
CountRuns(s, i) ==
    LET a == FindIn(s, i, WordChars)
    IN IF a >= Len(s) THEN 0 ELSE 1 + CountRuns(s, SkipIn(s, a, WordChars))

count_words(s) == CountRuns(s, 0)

\* bool(sentence_end_pattern.search(text)): the pattern matches wherever a
\* terminal occurs
is_sentence_end(s) == \E i \in 1..Len(s) : s[i] \in Terminals

\* End offset of the match of [.!?]+[\s"')\]]*(\\n)? that starts at offset i;
\* the last group is a backslash followed by the letter n.
MatchEnd(s, i) ==
    LET e == SkipIn(s, SkipIn(s, i, Terminals), Closers)
    IN IF e + 2 <= Len(s) /\ s[e + 1] = "\\" /\ s[e + 2] = "n" THEN e + 2 ELSE e

\* End offsets of the matches of sentence_end_pattern.finditer from offset i on
RECURSIVE MatchEnds(_, _)
MatchEnds(s, i) ==
    LET a == FindIn(s, i, Terminals)
    IN IF a >= Len(s) THEN <<>>
       ELSE <<MatchEnd(s, a)>> \o MatchEnds(s, MatchEnd(s, a))

find_sentence_boundaries(s) ==
    LET ends == MatchEnds(s, 0)
        n == Len(ends)
        matched == [k \in 1..n |-> <<IF k = 1 THEN 0 ELSE ends[k - 1], ends[k]>>]
        start == IF n = 0 THEN 0 ELSE ends[n]
    IN IF start < Len(s) THEN matched \o <<<<start, Len(s)>>>> ELSE matched

\* str.split(): the maximal runs of non-blank characters
RECURSIVE SplitFrom(_, _)
SplitFrom(s, i) ==
    LET a == SkipIn(s, i, Spaces)
        b == FindIn(s, a, Spaces)
    IN IF a >= Len(s) THEN <<>>
       ELSE <<SubSeq(s, a + 1, b)>> \o SplitFrom(s, b)

split(s) == SplitFrom(s, 0)

\* ' '.join(parts)
RECURSIVE join(_)
join(parts) ==
    IF Len(parts) = 0 THEN <<>>
    ELSE IF Len(parts) = 1 THEN parts[1]
    ELSE parts[1] \o <<" ">> \o join(Tail(parts))

TextChunk(t, start_index, end_index, chunk_number, is_complete_sentence) ==
    [text |-> t, start_index |-> start_index, end_index |-> end_index,
     chunk_number |-> chunk_number, is_complete_sentence |-> is_complete_sentence]

\* A flush of the accumulated words that does not advance chunk_number.
FlushWords_same_number(w, start) ==
    [chunks |-> Append(w.chunks,
                       TextChunk(join(w.temp_chunk), w.word_start,
                                 start + Len(join(w.temp_chunk)),
                                 w.chunk_number, FALSE)),
     chunk_number |-> w.chunk_number,
     temp_chunk |-> <<>>,
     temp_word_count |-> 0,
     word_start |-> start + Len(join(<<>>))]

\* "Create chunk from accumulated words" inside the word loop
FlushWords(w, start) ==
    [chunks |-> Append(w.chunks,
                       TextChunk(join(w.temp_chunk), w.word_start,
                                 start + Len(join(w.temp_chunk)),
                                 w.chunk_number, FALSE)),
     chunk_number |-> w.chunk_number + 1,
     temp_chunk |-> <<>>,
     temp_word_count |-> 0,
     word_start |-> start + Len(join(<<>>))]

\* for word in words: ...
RECURSIVE WordLoop(_, _, _, _)
WordLoop(w, words, start, mw) ==
    IF Len(words) = 0 THEN w
    ELSE LET w1 == IF w.temp_word_count + 1 > mw THEN FlushWords(w, start) ELSE w
             w2 == [w1 EXCEPT !.temp_chunk = Append(@, Head(words)),
                              !.temp_word_count = @ + 1]
         IN WordLoop(w2, Tail(words), start, mw)

\* The remaining words of a split sentence are forgotten.
RemainingWords_dropped(w, end) == w

\* "Add any remaining words"
RemainingWords(w, end) ==
    IF Len(w.temp_chunk) > 0
      THEN [w EXCEPT !.chunks = Append(@, TextChunk(join(w.temp_chunk), w.word_start,
                                                    end, w.chunk_number,
                                                    is_sentence_end(join(w.temp_chunk)))),
                     !.chunk_number = @ + 1]
      ELSE w

\* "If single sentence is longer than max_words, split it"
SplitSentence(st, sentence, start, end, mw) ==
    LET w0 == [chunks |-> st.chunks, chunk_number |-> st.chunk_number,
               temp_chunk |-> <<>>, temp_word_count |-> 0, word_start |-> start]
        w == RemainingWords(WordLoop(w0, split(sentence), start, mw), end)
    IN [st EXCEPT !.chunks = w.chunks, !.chunk_number = w.chunk_number]

\* "Create chunk from accumulated sentences"
FlushSentences(st, start) ==
    [chunks |-> Append(st.chunks,
                       TextChunk(join(st.current_chunk), st.chunk_start, start,
                                 st.chunk_number, TRUE)),
     chunk_number |-> st.chunk_number + 1,
     current_chunk |-> <<>>,
     current_word_count |-> 0,
     chunk_start |-> start]

\* One iteration of `for start, end in boundaries`
SentenceStep(st, t, start, end, mw) ==
    LET sentence == strip(SubSeq(t, start + 1, end))
        sentence_word_count == count_words(sentence)
        st1 == IF st.current_word_count + sentence_word_count > mw
                  /\ Len(st.current_chunk) > 0
                 THEN FlushSentences(st, start) ELSE st
    IN IF sentence_word_count > mw
         THEN SplitSentence(st1, sentence, start, end, mw)
         ELSE [st1 EXCEPT !.current_chunk = Append(@, sentence),
                          !.current_word_count = @ + sentence_word_count]

RECURSIVE SentenceLoop(_, _, _, _)
SentenceLoop(st, t, boundaries, mw) ==
    IF Len(boundaries) = 0 THEN st
    ELSE SentenceLoop(SentenceStep(st, t, Head(boundaries)[1], Head(boundaries)[2], mw),
                      t, Tail(boundaries), mw)

\* "Add any remaining text as final chunk"
FinalChunk(st, t) ==
    IF Len(st.current_chunk) > 0
      THEN Append(st.chunks, TextChunk(join(st.current_chunk), st.chunk_start, Len(t),
                                       st.chunk_number,
                                       is_sentence_end(join(st.current_chunk))))
      ELSE st.chunks

chunk_text(s, mw) ==
    LET t == normalize_whitespace(s)
        st0 == [chunks |-> <<>>, chunk_number |-> 0, current_chunk |-> <<>>,
                current_word_count |-> 0, chunk_start |-> 0]
    IN FinalChunk(SentenceLoop(st0, t, find_sentence_boundaries(t), mw), t)

\* No text is being chunked in this behaviour.
ChunkIdle ==
    /\ text = <<>>
    /\ max_words = 0
    /\ chunks = <<>>
    /\ cpc = "idle"
    /\ depth = 0

ChunkInit ==
    /\ text \in Texts
    /\ max_words \in 0..MaxWords
    /\ chunks = <<>>
    /\ cpc = "input"
    /\ depth = 0

\* chunks = TextProcessor().chunk_text(text, max_words)
ChunkText ==
    /\ cpc = "input"
    /\ chunks' = chunk_text(text, max_words)
    /\ cpc' = "chunked"
    /\ UNCHANGED <<text, max_words, depth>>
    /\ UNCHANGED <<clientVars, audioVars, pipeVars, normVars, handlerVars>>

ChunkNext == ChunkText

(***************************************************************************)
(*        chunk_text_by_sentences and adaptive_chunk_text                  *)
(* The module-level functions of text_processor.py.  They work on the text *)
(* as given (no whitespace normalisation) and return a list of strings.    *)
(***************************************************************************)

\* Frames of adaptive_chunk_text after which the interpreter raises
\* RecursionError (sys.getrecursionlimit() frames in CPython).
RecursionLimit == 4

\* re.split(r'([.!?]+\s*)', text) from offset i: the pieces between the
\* matches alternate with the matched separators, empty pieces included.
RECURSIVE ReSplitFrom(_, _)
ReSplitFrom(s, i) ==
    LET j == FindIn(s, i, Terminals)
        l == SkipIn(s, SkipIn(s, j, Terminals), Spaces)
    IN IF j >= Len(s) THEN <<SubSeq(s, i + 1, Len(s))>>
       ELSE <<SubSeq(s, i + 1, j), SubSeq(s, j + 1, l)>> \o ReSplitFrom(s, l)

re_split(s) == ReSplitFrom(s, 0)

\* re.match(r'[.!?]+\s*', s): the pattern matches at the start of s
MatchesPunctuation(s) == Len(s) > 0 /\ s[1] \in Terminals

\* The body of `while i < len(sentences)` for a non-empty sentence.
AddSentence(st, sentence, mw) ==
    LET sentence_words == Len(split(sentence))
    IN IF st.current_word_count > 0 /\ st.current_word_count + sentence_words > mw
         THEN [chunks |-> IF Len(strip(st.current_chunk)) > 0
                            THEN Append(st.chunks, strip(st.current_chunk))
                            ELSE st.chunks,
               current_chunk |-> sentence,
               current_word_count |-> sentence_words]
         ELSE [chunks |-> st.chunks,
               current_chunk |-> IF Len(st.current_chunk) > 0
                                   THEN st.current_chunk \o <<" ">> \o sentence
                                   ELSE sentence,
               current_word_count |-> st.current_word_count + sentence_words]

\* while i < len(sentences): ... (i is 0-based as in the code)
RECURSIVE BySentencesLoop(_, _, _, _)
BySentencesLoop(st, sentences, i, mw) ==
    IF i >= Len(sentences) THEN st
    ELSE LET sentence == strip(sentences[i + 1])
         IN IF Len(sentence) = 0 THEN BySentencesLoop(st, sentences, i + 1, mw)
            ELSE IF i + 1 < Len(sentences) /\ MatchesPunctuation(sentences[i + 2])
              THEN BySentencesLoop(AddSentence(st, sentence \o sentences[i + 2], mw),
                                   sentences, i + 2, mw)
              ELSE BySentencesLoop(AddSentence(st, sentence, mw), sentences, i + 1, mw)

chunk_text_by_sentences(s, mw) ==
    LET st == BySentencesLoop([chunks |-> <<>>, current_chunk |-> <<>>,
                               current_word_count |-> 0], re_split(s), 0, mw)
    IN IF Len(strip(st.current_chunk)) > 0
         THEN Append(st.chunks, strip(st.current_chunk))
         ELSE st.chunks

\* any(len(chunk.split()) > max_words for chunk in chunks)
AnyChunkTooLong(cs, mw) == \E k \in 1..Len(cs) : Len(split(cs[k])) > mw

\* A call of one of the two functions is about to be made.
SentencesInit ==
    /\ text \in Texts
    /\ max_words \in 1..MaxWords
    /\ chunks = <<>>
    /\ cpc = "input"
    /\ depth = 0

\* chunks = chunk_text_by_sentences(text, max_words=chunk_size), as in
\* TTSEngine.generate_tts
ChunkBySentences ==
    /\ cpc = "input"
    /\ chunks' = chunk_text_by_sentences(text, max_words)
    /\ cpc' = "by_sentences"
    /\ UNCHANGED <<text, max_words, depth>>
    /\ UNCHANGED <<clientVars, audioVars, pipeVars, normVars, handlerVars>>

\* One frame of adaptive_chunk_text(text, max_words, reduce_on_error=True):
\* it returns the chunks, or calls itself with max_words - 10; the frame
\* that exceeds the interpreter's limit raises RecursionError.
AdaptiveChunkText ==
    /\ cpc \in {"input", "adaptive"}
    /\ LET cs == chunk_text_by_sentences(text, max_words)
       IN IF AnyChunkTooLong(cs, max_words)
            THEN IF depth + 1 >= RecursionLimit
                   THEN /\ cpc' = "RecursionError"
                        /\ UNCHANGED <<max_words, depth, chunks>>
                   ELSE /\ cpc' = "adaptive"
                        /\ max_words' = max_words - 10
                        /\ depth' = depth + 1
                        /\ UNCHANGED chunks
            ELSE /\ cpc' = "adapted"
                 /\ chunks' = cs
                 /\ UNCHANGED <<max_words, depth>>
    /\ UNCHANGED text
    /\ UNCHANGED <<clientVars, audioVars, pipeVars, normVars, handlerVars>>

SentencesNext == ChunkBySentences \/ AdaptiveChunkText


(***************************************************************************)
(*               AudioProcessor: combine_audio_chunks                      *)
(* An array is a sequence of samples.  A sample is recorded as the linear  *)
(* combination of input samples it was computed from: a set of terms       *)
(* [seg, idx, num, den], standing for (num / den) * audio_chunks[seg][idx] *)
(* (seg counted from 1, idx from 0); gain tells whether the input sample   *)
(* went through normalize_audio first.  The empty set is the sample 0.0 of *)
(* np.zeros.  Offsets are 0-based as in Python.                            *)
(***************************************************************************)

\* Most segments in a list.
MaxSegments == 3

\* Longest segment, in samples.
MaxSegLen == 4

\* Largest crossfade length enumerated, in samples.
MaxCrossfade == 3

Min(a, b) == IF a < b THEN a ELSE b

Max(a, b) == IF a > b THEN a ELSE b

\* The samples of segment number seg, of length n, as they are handed over.
Segment(seg, n) ==
    [j \in 1..n |-> {[seg |-> seg, idx |-> j - 1, num |-> 1, den |-> 1,
                       gain |-> "unit"]}]

\* A computed array, or the ValueError numpy raised instead.
Array(a) == [ok |-> TRUE, arr |-> a]

ValueError == [ok |-> FALSE, arr |-> <<>>]

\* int(crossfade_duration * self.sample_rate): int() truncates toward zero;
\* the product is given in half samples.
crossfade_samples(halves) ==
    IF halves >= 0 THEN halves \div 2 ELSE -((-halves) \div 2)

\* How Python resolves one bound of a slice of a sequence of length n.
SliceIndex(n, i) == IF i < 0 THEN Max(i + n, 0) ELSE Min(i, n)

\* a[i:j]
Slice(a, i, j) == SubSeq(a, SliceIndex(Len(a), i) + 1, SliceIndex(Len(a), j))

\* len(a[i:j])
SliceLen(n, i, j) == Max(SliceIndex(n, j) - SliceIndex(n, i), 0)

\* Broadcasting of a one-dimensional array to length n: same length, or
\* length 1 repeated.
CanBroadcast(a, n) == Len(a) = n \/ Len(a) = 1

Broadcast(a, n) == IF Len(a) = n THEN a ELSE [j \in 1..n |-> a[1]]

\* np.linspace(0, 1, k); a negative k raises ValueError
linspace01(k) ==
    IF k < 0 THEN ValueError
    ELSE Array([j \in 1..k |-> IF k = 1 THEN [num |-> 0, den |-> 1]
                                        ELSE [num |-> j - 1, den |-> k - 1]])

\* np.linspace(1, 0, k); a negative k raises ValueError
linspace10(k) ==
    IF k < 0 THEN ValueError
    ELSE Array([j \in 1..k |-> IF k = 1 THEN [num |-> 1, den |-> 1]
                                        ELSE [num |-> k - j, den |-> k - 1]])

\* One sample times one weight.
Scaled(sample, w) ==
    {[t EXCEPT !.num = @ * w.num, !.den = @ * w.den] : t \in sample}

\* a * weights for one-dimensional arrays, with broadcasting
Times(a, weights) ==
    IF ~weights.ok THEN ValueError
    ELSE LET w == weights.arr
             n == IF Len(a) = 1 THEN Len(w) ELSE Len(a)
         IN IF Len(a) = Len(w) \/ Len(a) = 1 \/ Len(w) = 1
              THEN Array([j \in 1..n |-> Scaled(Broadcast(a, n)[j], Broadcast(w, n)[j])])
              ELSE ValueError

\* The state of the function body: the output array, the write position,
\* and whether an exception has been raised.
\* combined[i:j] = src
SetSlice(c, i, j, src) ==
    LET n == Len(c.combined)
        lo == SliceIndex(n, i)
        m == SliceLen(n, i, j)
    IN IF ~c.ok \/ ~src.ok \/ ~CanBroadcast(src.arr, m) THEN [c EXCEPT !.ok = FALSE]
       ELSE [c EXCEPT !.combined =
                [p \in 1..n |-> IF p > lo /\ p <= lo + m
                                  THEN Broadcast(src.arr, m)[p - lo] ELSE @[p]]]

\* combined[i:j] += src
AddSlice(c, i, j, src) ==
    LET n == Len(c.combined)
        lo == SliceIndex(n, i)
        m == SliceLen(n, i, j)
    IN IF ~c.ok \/ ~src.ok \/ ~CanBroadcast(src.arr, m) THEN [c EXCEPT !.ok = FALSE]
       ELSE [c EXCEPT !.combined =
                [p \in 1..n |-> IF p > lo /\ p <= lo + m
                                  THEN @[p] \cup Broadcast(src.arr, m)[p - lo]
                                  ELSE @[p]]]

\* pos += n
Advance(c, n) == [c EXCEPT !.pos = @ + n]

RECURSIVE SumLen(_)
SumLen(chunkList) ==
    IF Len(chunkList) = 0 THEN 0 ELSE Len(Head(chunkList)) + SumLen(Tail(chunkList))

\* combined = np.zeros(total_samples); pos = 0
Zeros(total) ==
    IF total < 0 THEN [ok |-> FALSE, combined |-> <<>>, pos |-> 0]
    ELSE [ok |-> TRUE, combined |-> [p \in 1..total |-> {}], pos |-> 0]

\* "First chunk (no fade in)"
FirstChunk(c, chunk, k) ==
    Advance(SetSlice(c, c.pos, c.pos + Len(chunk) - k, Array(Slice(chunk, 0, -k))),
            Len(chunk) - k)

\* Body of the loop over the middle chunks; fade_out is computed and not used.
MiddleChunk(c, chunk, k) ==
    LET fade_in == linspace01(k)
        fade_out == linspace10(k)
        c1 == IF fade_out.ok THEN c ELSE [c EXCEPT !.ok = FALSE]
        c2 == AddSlice(c1, c.pos, c.pos + k, Times(Slice(chunk, 0, k), fade_in))
        c3 == SetSlice(c2, c.pos + k, c.pos + Len(chunk) - k, Array(Slice(chunk, k, -k)))
    IN Advance(c3, Len(chunk) - k)

\* for chunk in audio_chunks[1:-1]
RECURSIVE MiddleChunks(_, _, _)
MiddleChunks(c, middle, k) ==
    IF Len(middle) = 0 THEN c
    ELSE MiddleChunks(MiddleChunk(c, Head(middle), k), Tail(middle), k)

\* "Last chunk (no fade out)"
LastChunk(c, chunk, k) ==
    LET fade_in == linspace01(k)
        c1 == AddSlice(c, c.pos, c.pos + k, Times(Slice(chunk, 0, k), fade_in))
    IN SetSlice(c1, c.pos + k, Len(c.combined), Array(Slice(chunk, k, Len(chunk))))

combine_audio_chunks(chunkList, halves) ==
    IF Len(chunkList) = 0 THEN Array(<<>>)
    ELSE IF Len(chunkList) = 1 THEN Array(chunkList[1])
    ELSE LET n == Len(chunkList)
             k == crossfade_samples(halves)
             total_samples == SumLen(chunkList) - k * (n - 1)
             c0 == Zeros(total_samples)
             c1 == FirstChunk(c0, chunkList[1], k)
             c2 == MiddleChunks(c1, SubSeq(chunkList, 2, n - 1), k)
             c3 == LastChunk(c2, chunkList[n], k)
         IN IF c3.ok THEN Array(c3.combined) ELSE ValueError

\* No audio is being combined in this behaviour.
AudioIdle ==
    /\ audio_chunks = <<>>
    /\ crossfade_duration = 0
    /\ final_audio = Array(<<>>)
    /\ apc = "idle"

SegmentLists ==
    UNION {[1..n -> 0..MaxSegLen] : n \in 0..MaxSegments}

CombineInit ==
    /\ \E lens \in SegmentLists :
          audio_chunks = [i \in 1..Len(lens) |-> Segment(i, lens[i])]
    /\ crossfade_duration \in -3..(2 * MaxCrossfade + 1)
    /\ final_audio = Array(<<>>)
    /\ apc = "input"

\* final_audio = audio_processor.combine_audio_chunks(audio_chunks, crossfade_duration)
Combine ==
    /\ apc = "input"
    /\ final_audio' = combine_audio_chunks(audio_chunks, crossfade_duration)
    /\ apc' = "combined"
    /\ UNCHANGED <<audio_chunks, crossfade_duration>>
    /\ UNCHANGED <<clientVars, chunkVars, pipeVars, normVars, handlerVars>>

CombineNext == Combine

(***************************************************************************)
(*        POST /tts/generate: TTSEngine.generate_tts and assembly          *)
(* The request is followed from process_text_chunks to the combined        *)
(* waveform; writing the waveform to a file is not part of the model.      *)
(***************************************************************************)

\* Most chunks in a request.
MaxChunks == 4

\* max_retries: int = 3
max_retries == 3

\* Ways one call of self.model.generate can end.
GenerateOutcomes == {"ok", "cuda_oom", "runtime_error"}

\* audio_chunks.append(wav)
AppendWav(list, wav) == Append(list, wav)

\* audio_data * gain_linear, clipped: sample for sample, the same length
normalize_audio(chunk) ==
    [j \in 1..Len(chunk) |-> {[t EXCEPT !.gain = "normalized"] : t \in chunk[j]}]

PipeIdle ==
    /\ ppc = "idle"
    /\ text_chunks = <<>>
    /\ loop_i = 0
    /\ attempt = 0
    /\ device = "cuda"
    /\ model = "None"
    /\ attempted = {}
    /\ failed = {}
    /\ enable_normalization = FALSE
    /\ outcome = "none"
    /\ calls = <<>>

\* The request after validation, load_model and chunk_text_by_sentences.
PipeInit ==
    /\ ppc = "synth"
    /\ \E n \in 1..MaxChunks : text_chunks = [i \in 1..n |-> i]
    /\ loop_i = 1
    /\ attempt = 0
    /\ device \in {"cuda", "cpu"}
    /\ model = device
    /\ attempted = {}
    /\ failed = {}
    /\ enable_normalization \in BOOLEAN
    /\ outcome = "none"
    /\ calls = <<>>
    /\ audio_chunks = <<>>
    /\ crossfade_duration \in -3..(2 * MaxCrossfade + 1)
    /\ final_audio = Array(<<>>)
    /\ apc = "idle"

\* The exception is swallowed and the request answers as if assembled.
Raise_swallowed ==
    /\ ppc' = "done"
    /\ outcome' = "assembled"
    /\ failed' = failed \cup {text_chunks[loop_i]}
    /\ UNCHANGED <<loop_i, attempt, audio_chunks>>

\* The exception leaves process_text_chunks and generate_tts and is turned
\* into HTTPException(500) by the endpoint.
Raise ==
    /\ ppc' = "done"
    /\ outcome' = "http_500"
    /\ failed' = failed \cup {text_chunks[loop_i]}
    /\ UNCHANGED <<loop_i, attempt, audio_chunks>>

\* An engine that goes back to the GPU at the first attempt of every call.
DeviceFor_reset(a, dv) ==
    IF a > 0 /\ dv = "cuda" THEN "cpu" ELSE IF a = 0 THEN "cuda" ELSE dv

\* self.device after `if attempt > 0 and self.device == "cuda"`
DeviceFor(a, dv) == IF a > 0 /\ dv = "cuda" THEN "cpu" ELSE dv

\* One iteration of `for attempt in range(max_retries)` of
\* generate_with_retry, for the chunk process_text_chunks is at.
Generate ==
    /\ ppc = "synth"
    /\ attempt < max_retries
    /\ LET fallback == attempt > 0 /\ device = "cuda"
           dev == DeviceFor(attempt, device)
           mdl == IF fallback THEN "cpu" ELSE model
       IN /\ device' = dev
          /\ IF mdl = "None"
               THEN /\ model' = mdl
                    /\ attempted' = attempted
                    /\ calls' = calls
                    /\ Raise
               ELSE /\ attempted' = attempted \cup {text_chunks[loop_i]}
                    /\ \E o \in GenerateOutcomes, n \in 1..MaxSegLen :
                        /\ calls' = Append(calls, [chunk |-> text_chunks[loop_i],
                                                   attempt |-> attempt,
                                                   device |-> dev, model |-> mdl,
                                                   outcome |-> o])
                        /\ CASE o = "ok" ->
                               /\ audio_chunks' =
                                     AppendWav(audio_chunks, Segment(text_chunks[loop_i], n))
                               /\ model' = mdl
                               /\ attempt' = 0
                               /\ loop_i' = loop_i + 1
                               /\ ppc' = IF loop_i = Len(text_chunks)
                                           THEN "assemble" ELSE "synth"
                               /\ UNCHANGED <<failed, outcome>>
                          [] o # "ok" /\ attempt = max_retries - 1 ->
                               /\ model' = mdl
                               /\ Raise
                          [] o = "cuda_oom" /\ attempt # max_retries - 1 /\ dev = "cuda" ->
                               /\ model' = "None"
                               /\ attempt' = attempt + 1
                               /\ UNCHANGED <<ppc, loop_i, audio_chunks, failed, outcome>>
                          [] OTHER ->
                               /\ model' = mdl
                               /\ Raise
    /\ UNCHANGED <<text_chunks, enable_normalization, crossfade_duration,
                   final_audio, apc>>
    /\ UNCHANGED <<clientVars, chunkVars, normVars, handlerVars>>

\* normalize_audio on every chunk when enabled, then combine_audio_chunks;
\* an exception of either becomes HTTPException(500)
Assemble ==
    /\ ppc = "assemble"
    /\ LET normalized == IF enable_normalization
                           THEN [i \in 1..Len(audio_chunks) |->
                                    normalize_audio(audio_chunks[i])]
                           ELSE audio_chunks
           combined == combine_audio_chunks(normalized, crossfade_duration)
       IN /\ audio_chunks' = normalized
          /\ final_audio' = combined
          /\ outcome' = IF combined.ok THEN "assembled" ELSE "http_500"
    /\ ppc' = "done"
    /\ UNCHANGED <<text_chunks, loop_i, attempt, device, model, attempted, failed,
                   enable_normalization, crossfade_duration, apc, calls>>
    /\ UNCHANGED <<clientVars, chunkVars, normVars, handlerVars>>

PipeNext == Generate \/ Assemble

(***************************************************************************)
(*                   AudioProcessor: normalize_audio                       *)
(* The levels of one buffer and the gain applied to it.  A sample of the   *)
(* input is -1, 0 or 1 (full scale or silence).  A float the code computes *)
(* is a record: an exact number, nan, +inf, -inf, or the expression it was *)
(* computed by where the value is no whole number.                         *)
(***************************************************************************)

\* Longest buffer enumerated.
MaxBufLen == 3

SampleValues == {-1, 0, 1}

\* Values of target_db: far below, the default -18.0, full scale, above.
TargetLevels == {-100, -18, 0, 6}

\* method == 'rms', or anything else ("peak")
NormMethods == {"rms", "peak"}

Num(x) == [kind |-> "num", val |-> x]
NaN == [kind |-> "nan"]
PosInf == [kind |-> "inf"]
NegInf == [kind |-> "-inf"]

\* np.sum(audio_data**2); np.mean divides it by len(audio_data)
RECURSIVE SumSquares(_)
SumSquares(a) ==
    IF Len(a) = 0 THEN 0 ELSE Head(a) * Head(a) + SumSquares(Tail(a))

\* np.max(np.abs(audio_data)) of a buffer that is not empty
RECURSIVE Peak(_)
Peak(a) ==
    IF Len(a) = 0 THEN 0
    ELSE LET x == IF Head(a) < 0 THEN -Head(a) ELSE Head(a)
         IN Max(x, Peak(Tail(a)))

\* 20 * np.log10(level) for a level > 0 whose square is num / den
Log10Db(num, den) ==
    IF num = den THEN Num(0) ELSE [kind |-> "tenlog10", num |-> num, den |-> den]

\* The level in dB computed with no test of level > 0: np.log10(0.0) is -inf.
level_db_unguarded(num, den) ==
    IF num > 0 THEN Log10Db(num, den) ELSE NegInf

\* `20 * np.log10(level) if level > 0 else -100`, for a level whose square
\* is num / den
level_db(num, den) ==
    IF num > 0 THEN Log10Db(num, den) ELSE Num(-100)

\* analyze_audio_level of a buffer that is not empty
analyze_audio_level(a) ==
    [rms_db |-> level_db(SumSquares(a), Len(a)),
     peak_db |-> level_db(Peak(a) * Peak(a), 1)]

\* gain_db = target_db - current_db
GainDb(target, current) ==
    CASE current.kind = "num" -> Num(target - current.val)
      [] current.kind = "-inf" -> PosInf
      [] OTHER -> [kind |-> "minus", target |-> target, level |-> current]

\* gain_linear = 10 ** (gain_db / 20)
GainLinear(g) ==
    CASE g.kind = "num" /\ g.val = 0 -> Num(1)
      [] g.kind = "inf" -> PosInf
      [] OTHER -> [kind |-> "pow10", db |-> g]

\* One sample of audio_data * gain_linear; 0 * inf is nan.
ApplyGain(x, g) ==
    CASE g.kind = "inf" -> (IF x = 0 THEN NaN ELSE IF x > 0 THEN PosInf ELSE NegInf)
      [] g.kind # "inf" /\ x = 0 -> Num(0)
      [] g.kind # "inf" /\ x # 0 /\ g = Num(1) -> Num(x)
      [] OTHER -> [kind |-> "product", val |-> x, gain |-> g]

\* One sample of np.clip(normalized_audio, -1.0, 1.0); nan stays nan.
Clip(v) ==
    CASE v.kind = "num" -> Num(Max(-1, Min(1, v.val)))
      [] v.kind = "nan" -> NaN
      [] v.kind = "inf" -> Num(1)
      [] v.kind = "-inf" -> Num(-1)
      [] OTHER -> [kind |-> "clipped", of |-> v]

\* normalize_audio(audio_data, target_db, method) on sample values; np.max of
\* an empty buffer raises ValueError.
normalize_audio_values(a, target, mth) ==
    IF Len(a) = 0 THEN ValueError
    ELSE LET levels == analyze_audio_level(a)
             current_db == IF mth = "rms" THEN levels.rms_db ELSE levels.peak_db
             gain_linear == GainLinear(GainDb(target, current_db))
         IN Array([i \in 1..Len(a) |-> Clip(ApplyGain(a[i], gain_linear))])

\* No buffer is being normalized in this behaviour.
NormIdle ==
    /\ audio_data = <<>>
    /\ target_db = 0
    /\ norm_method = "rms"
    /\ normalized_audio = Array(<<>>)
    /\ npc = "idle"

Buffers == UNION {[1..n -> SampleValues] : n \in 0..MaxBufLen}

NormInit ==
    /\ audio_data \in Buffers
    /\ target_db \in TargetLevels
    /\ norm_method \in NormMethods
    /\ normalized_audio = Array(<<>>)
    /\ npc = "input"

\* normalized_audio = audio_processor.normalize_audio(audio_data, target_db, method)
NormalizeAudio ==
    /\ npc = "input"
    /\ normalized_audio' = normalize_audio_values(audio_data, target_db, norm_method)
    /\ npc' = "normalized"
    /\ UNCHANGED <<audio_data, target_db, norm_method>>
    /\ UNCHANGED <<clientVars, chunkVars, audioVars, pipeVars, handlerVars>>

NormNext == NormalizeAudio

(***************************************************************************)
(*                 The serverless handler (handler.py)                     *)
(* One event is served.  A request is recorded by the keys the handler     *)
(* reads; "" stands for a key that is missing, None or empty.  temp_files  *)
(* is the set of temporary paths that exist.  The calls that remove a path *)
(* (os.remove, os.rmdir, shutil.rmtree) are taken to succeed.              *)
(***************************************************************************)

NoRequest ==
    [origin |-> "none", type |-> "", text |-> "", voice_name |-> "",
     audio_data |-> "", source_audio |-> "", target_voice_name |-> ""]

NoResponse == [returned |-> FALSE, success |-> FALSE, error |-> ""]

\* Values of an argument a caller passes: empty or not.
ArgValues == {"", "x"}

\* input_data as the methods of RunPodClient build it from their arguments.
ClientRequest(m, a, b) ==
    CASE m = "clone_voice" ->
            \* the audio goes under "reference_audio", "text" is None
            [NoRequest EXCEPT !.origin = m, !.type = "clone", !.voice_name = a]
      [] m \in {"generate_tts", "generate_speech"} ->
            [NoRequest EXCEPT !.origin = m, !.type = "tts", !.text = a, !.voice_name = b]
      [] m = "convert_voice" ->
            [NoRequest EXCEPT !.origin = m, !.type = "voice_convert",
                              !.source_audio = a, !.target_voice_name = b]

ClientMethods == {"clone_voice", "generate_tts", "generate_speech", "convert_voice"}

ClientRequests == {ClientRequest(m, a, b) : m \in ClientMethods, a \in ArgValues, b \in ArgValues}

\* Requests of other callers: the types the handler names, or another string.
OtherRequests ==
    [origin : {"other"}, type : {"tts", "voice_clone", "voice_convert", "bogus"},
     text : ArgValues, voice_name : ArgValues, audio_data : ArgValues,
     source_audio : ArgValues, target_voice_name : ArgValues]

Error(msg) == [returned |-> TRUE, success |-> FALSE, error |-> msg]

Success == [returned |-> TRUE, success |-> TRUE, error |-> ""]

\* No event is served in this behaviour.
HandlerIdle ==
    /\ hpc = "idle"
    /\ request = NoRequest
    /\ temp_files = {}
    /\ response = NoResponse

HandlerInit ==
    /\ hpc = "start"
    /\ request \in ClientRequests \cup OtherRequests
    /\ temp_files = {}
    /\ response = NoResponse

\* if request_type == "tts": ... elif ... else
Dispatch(t) ==
    CASE t = "tts" -> "handle_tts_request"
      [] t = "voice_clone" -> "handle_voice_clone_request"
      [] t = "voice_convert" -> "handle_voice_conversion_request"
      [] OTHER -> "unknown"

\* handler(event) up to the call of the request handler
Handler ==
    /\ hpc = "start"
    /\ IF Dispatch(request.type) = "unknown"
         THEN /\ hpc' = "done"
              /\ response' = Error("Unknown request type")
         ELSE /\ hpc' = Dispatch(request.type)
              /\ response' = response
    /\ UNCHANGED <<request, temp_files>>
    /\ UNCHANGED <<clientVars, chunkVars, audioVars, pipeVars, normVars>>

\* Where handle_tts_request stops: a validation return, the voice file not
\* found, an exception of the named step, or none.
TtsStops ==
    {"no_voice_file", "components", "generate", "mkdtemp", "write", "read", "none"}

\* The temporary paths left behind by handle_tts_request stopping at stop.
TtsLeft(stop) ==
    CASE stop = "write" -> {"temp_dir"}
      [] stop = "read" -> {"temp_dir", "temp_dir/output.wav"}
      [] OTHER -> {}

HandleTtsRequest ==
    /\ hpc = "handle_tts_request"
    /\ hpc' = "done"
    /\ IF request.text = "" THEN
            /\ response' = Error("Text is required")
            /\ temp_files' = temp_files
       ELSE IF request.voice_name = "" THEN
            /\ response' = Error("Voice name is required")
            /\ temp_files' = temp_files
       ELSE \E stop \in TtsStops :
            /\ response' = CASE stop = "none" -> Success
                             [] stop = "no_voice_file" -> Error("Voice file not found")
                             [] OTHER -> Error("TTS generation failed")
            /\ temp_files' = temp_files \cup TtsLeft(stop)
    /\ UNCHANGED request
    /\ UNCHANGED <<clientVars, chunkVars, audioVars, pipeVars, normVars>>

HandleVoiceCloneRequest ==
    /\ hpc = "handle_voice_clone_request"
    /\ hpc' = "done"
    /\ IF request.voice_name = "" THEN response' = Error("Voice name is required")
       ELSE IF request.audio_data = "" THEN response' = Error("Audio data is required")
       ELSE \E ok \in BOOLEAN :
               response' = IF ok THEN Success ELSE Error("Failed to clone voice")
    /\ UNCHANGED <<request, temp_files>>
    /\ UNCHANGED <<clientVars, chunkVars, audioVars, pipeVars, normVars>>

\* Where handle_voice_conversion_request stops.
ConversionStops ==
    {"unavailable", "mkdtemp", "write_source", "no_target_file", "convert",
     "save", "read", "none"}

\* The temporary paths left behind by handle_voice_conversion_request
\* stopping at stop: the except branch removes the tree, the early return
\* for a missing target voice file removes nothing.
ConversionLeft(stop) ==
    IF stop = "no_target_file" THEN {"temp_dir", "temp_dir/source_audio.wav"} ELSE {}

HandleVoiceConversionRequest ==
    /\ hpc = "handle_voice_conversion_request"
    /\ hpc' = "done"
    /\ \E stop \in ConversionStops :
        IF stop = "unavailable" THEN
            /\ response' = Error("Voice conversion not available")
            /\ temp_files' = temp_files
        ELSE IF request.source_audio = "" THEN
            /\ response' = Error("Source audio data is required")
            /\ temp_files' = temp_files
        ELSE IF request.target_voice_name = "" THEN
            /\ response' = Error("Target voice name is required")
            /\ temp_files' = temp_files
        ELSE
            /\ response' = CASE stop = "none" -> Success
                             [] stop = "no_target_file" -> Error("Target voice file not found")
                             [] OTHER -> Error("Failed to convert voice")
            /\ temp_files' = temp_files \cup ConversionLeft(stop)
    /\ UNCHANGED request
    /\ UNCHANGED <<clientVars, chunkVars, audioVars, pipeVars, normVars>>

HandlerNext ==
    Handler \/ HandleTtsRequest \/ HandleVoiceCloneRequest \/ HandleVoiceConversionRequest

(***************************************************************************)
(*                            Specifications                               *)
(***************************************************************************)

\* One call of chunk_text on an enumerated text.
ChunkSpecInit == ChunkInit /\ ClientIdle /\ AudioIdle /\ PipeIdle /\ NormIdle /\ HandlerIdle

ChunkSpec == ChunkSpecInit /\ [][ChunkNext]_vars

\* One call of chunk_text_by_sentences or of adaptive_chunk_text on an
\* enumerated text.
SentencesSpecInit == SentencesInit /\ ClientIdle /\ AudioIdle /\ PipeIdle /\ NormIdle /\ HandlerIdle

SentencesSpec == SentencesSpecInit /\ [][SentencesNext]_vars

\* One call of combine_audio_chunks on an enumerated list of segments.
CombineSpecInit == CombineInit /\ ClientIdle /\ ChunkIdle /\ PipeIdle /\ NormIdle /\ HandlerIdle

CombineSpec == CombineSpecInit /\ [][CombineNext]_vars

\* One POST /tts/generate request.
PipeSpecInit == PipeInit /\ ClientIdle /\ ChunkIdle /\ NormIdle /\ HandlerIdle

PipeSpec == PipeSpecInit /\ [][PipeNext]_vars


\* One call of a RunPodClient method.
Init == ClientInit /\ ChunkIdle /\ AudioIdle /\ PipeIdle /\ NormIdle /\ HandlerIdle

Next == ClientNext

Spec == Init /\ [][Next]_vars

\* The call runs to completion: the thread executing it is never starved.
FairSpec == Spec /\ WF_vars(Next)

\* One call of normalize_audio on an enumerated buffer.
NormSpecInit == NormInit /\ ClientIdle /\ ChunkIdle /\ AudioIdle /\ PipeIdle /\ HandlerIdle

NormSpec == NormSpecInit /\ [][NormNext]_vars

\* One call of a RunPodClient method whose caller may want to cancel it.
CancelSpec == Init /\ [][CancelNext]_vars

\* One call of clone_voice.
CloneSpecInit ==
    ClientStart({"clone_voice"}) /\ ChunkIdle /\ AudioIdle /\ PipeIdle /\ NormIdle
        /\ HandlerIdle

CloneSpec == CloneSpecInit /\ [][ClientNext]_vars

\* One call of convert_voice.
ConvertSpecInit ==
    ClientStart({"convert_voice"}) /\ ChunkIdle /\ AudioIdle /\ PipeIdle /\ NormIdle
        /\ HandlerIdle

ConvertSpec == ConvertSpecInit /\ [][ClientNext]_vars

\* time.sleep and requests.get(timeout=10) return, so a call that can take a
\* step eventually takes one.
ConvertFairSpec == ConvertSpec /\ WF_vars(ClientNext)

\* One event served by the serverless handler.
HandlerSpecInit ==
    HandlerInit /\ ClientIdle /\ ChunkIdle /\ AudioIdle /\ PipeIdle /\ NormIdle

HandlerSpec == HandlerSpecInit /\ [][HandlerNext]_vars

(***************************************************************************)
(*                      Claims about the RunPod client                     *)
(***************************************************************************)

NonTerminalAnswer(o) ==
    /\ o.kind = "json"
    /\ o.error = "absent"
    /\ o.status \notin {"COMPLETED", "FAILED", "CANCELLED"}

\* C1: a call whose status polls keep answering RUNNING (or another
\* non-terminal status) ends: no status request is issued once the elapsed
\* time exceeds max_wait_time, the call returns, and a call that returns after
\* a non-terminal answer returns the timed-out error with no audio.
C1_PollingEndsAtBudget ==
    /\ <>(pc = "done")
    /\ [](lastPollAt <= max_wait_time(method))
    /\ [](pc = "done" /\ NonTerminalAnswer(lastPoll)
            => result = Failure(method, TimedOutMsg) /\ result.audio = "None")

C1_Witness ==
    /\ pc = "done"
    /\ lastPoll.status = "RUNNING"
    /\ elapsed > max_wait_time(method)
    /\ result.msg = TimedOutMsg

C3_TimeoutTolerated ==
    pc = "done" /\ lastPoll.kind = "timeout"
        => timeoutsInRow >= max_consecutive_timeouts

\* C4: audio is returned only after a COMPLETED answer without "error" and
\* with an audio_data payload; after a FAILED or CANCELLED answer, or when
\* the call ended on the wait budget, the call has returned no audio and a
\* non-empty error.
C4_TerminalOutcomes ==
    /\ result.audio # "None" =>
          /\ lastPoll.kind = "json"
          /\ lastPoll.status = "COMPLETED"
          /\ lastPoll.error = "absent"
          /\ lastPoll.output \in {"valid", "corrupt"}
    /\ (pc = "done" /\ method = "generate_tts"
          /\ (lastPoll.status \in {"FAILED", "CANCELLED"}
                \/ NonTerminalAnswer(lastPoll))) =>
          /\ result.audio = "None"
          /\ result.msg # ""

(***************************************************************************)
(*                        Claims about chunk_text                          *)
(***************************************************************************)

\* The texts of the returned chunks, concatenated in list order.
ChunkTexts == join([i \in 1..Len(chunks) |-> chunks[i].text])

\* A text without its white space.
RECURSIVE NonBlank(_)
NonBlank(s) ==
    IF Len(s) = 0 THEN <<>>
    ELSE (IF Head(s) \in Spaces THEN <<>> ELSE <<Head(s)>>) \o NonBlank(Tail(s))

\* C7: for max_words >= 1 every returned chunk, whether accumulated from
\* whole sentences or cut out of a long sentence, has count_words <= max_words.
C7_ChunkWordBound ==
    (cpc = "chunked" /\ max_words >= 1) =>
        \A i \in 1..Len(chunks) : count_words(chunks[i].text) <= max_words

K == crossfade_samples(crossfade_duration)

\* Sum of the weights of a set of terms, as a fraction.
RECURSIVE WeightSum(_)
WeightSum(terms) ==
    IF terms = {} THEN [num |-> 0, den |-> 1]
    ELSE LET t == CHOOSE x \in terms : TRUE
             r == WeightSum(terms \ {t})
         IN [num |-> t.num * r.den + r.num * t.den, den |-> t.den * r.den]

\* The weight with which input sample idx of segment seg enters a sample.
Coef(sample, seg, idx) ==
    WeightSum({t \in sample : t.seg = seg /\ t.idx = idx})

SameFraction(a, b) == a.num * b.den = b.num * a.den

One == [num |-> 1, den |-> 1]

\* Offset in the output at which segment i + 1 starts to overlap segment i.
OverlapStart(i) == SumLen(SubSeq(audio_chunks, 1, i)) - K * i

\* C9: for two or more segments and a crossfade of k >= 0 samples the call
\* returns a waveform of length sum of the segment lengths - k * (segments - 1);
\* stated for non-empty segments that are long enough for their crossfades.
C9_CombinedLength ==
    (/\ apc = "combined"
     /\ Len(audio_chunks) >= 2
     /\ crossfade_duration >= 0
     /\ \A i \in 1..Len(audio_chunks) :
           Len(audio_chunks[i]) >= 1 /\ Len(audio_chunks[i]) >= 2 * K) =>
        /\ final_audio.ok
        /\ Len(final_audio.arr) = SumLen(audio_chunks) - K * (Len(audio_chunks) - 1)

\* C10: every sample of an overlap region is the trailing sample of the
\* previous segment times the fade-out weight plus the leading sample of the
\* next segment times the fade-in weight, and the two weights sum to 1 (so
\* segments of one constant amplitude keep that amplitude in the overlap).
C10_CrossfadeMix ==
    (/\ apc = "combined"
     /\ Len(audio_chunks) >= 2
     /\ K >= 1
     /\ \A i \in 1..Len(audio_chunks) : Len(audio_chunks[i]) >= 2 * K) =>
        /\ final_audio.ok
        /\ \A i \in 1..(Len(audio_chunks) - 1) : \A j \in 0..(K - 1) :
              LET sample == final_audio.arr[OverlapStart(i) + j + 1]
                  fade_in == linspace01(K).arr[j + 1]
                  fade_out == linspace10(K).arr[j + 1]
              IN /\ SameFraction(Coef(sample, i, Len(audio_chunks[i]) - K + j), fade_out)
                 /\ SameFraction(Coef(sample, i + 1, j), fade_in)
                 /\ SameFraction(WeightSum(sample), One)

(***************************************************************************)
(*                  Claims about the generation pipeline                   *)
(***************************************************************************)

\* The input samples that are heard in a sample of the output, as
\* <<chunk number, sample index>> pairs.
Origins(sample) == {<<t.seg, t.idx>> : t \in {u \in sample : u.num # 0}}

\* The positions of the output in which chunk number c is heard.
Positions(out, c) ==
    {p \in 1..Len(out) : \E a \in Origins(out[p]) : a[1] = c}

\* Chunk c starts and ends no later than chunk d in the output.
NotAfter(out, c, d) ==
    \A p \in Positions(out, c) : \A q \in Positions(out, d) :
        /\ (\A r \in Positions(out, c) : p <= r) /\ (\A r \in Positions(out, d) : q <= r)
              => p <= q
        /\ (\A r \in Positions(out, c) : r <= p) /\ (\A r \in Positions(out, d) : r <= q)
              => p <= q

\* C5: when the synthesis of a chunk fails, every chunk is still synthesized
\* and the request ends with the audio assembled from the chunks that
\* succeeded, not with an error alone.
C5_ContinuesAfterFailure ==
    (ppc = "done" /\ failed # {}) =>
        /\ attempted = {text_chunks[i] : i \in 1..Len(text_chunks)}
        /\ audio_chunks # <<>> => outcome = "assembled"

\* C6: the i-th segment handed to the assembler is the audio synthesized from
\* the i-th text chunk; in the combined output of a successful generation the
\* chunks start and end in chunk order, and the samples of one chunk follow
\* one another in their own order.
C6_ChunkOrderKept ==
    /\ ppc # "idle" =>
          \A i \in 1..Len(audio_chunks) : \A j \in 1..Len(audio_chunks[i]) :
              Origins(audio_chunks[i][j]) = {<<text_chunks[i], j - 1>>}
    /\ (ppc = "done" /\ outcome = "assembled") =>
          /\ \A c \in 1..Len(text_chunks) : \A d \in 1..Len(text_chunks) :
                c < d => NotAfter(final_audio.arr, c, d)
          /\ \A p \in 1..Len(final_audio.arr) : \A q \in 1..Len(final_audio.arr) :
                p < q => \A a \in Origins(final_audio.arr[p]) :
                            \A b \in Origins(final_audio.arr[q]) :
                                a[1] = b[1] => a[2] < b[2]

(***************************************************************************)
(*            Claims about the crossfade length and its sign               *)
(***************************************************************************)

\* C11: with two or more non-empty segments of which one is shorter than the
\* crossfade of k >= 1 samples, the call still completes without an error
\* (the crossfade used is clamped to the shorter neighbour).
C11_CrossfadeClamped ==
    (/\ apc = "combined"
     /\ Len(audio_chunks) >= 2
     /\ K >= 1
     /\ \A i \in 1..Len(audio_chunks) : Len(audio_chunks[i]) >= 1
     /\ \E i \in 1..Len(audio_chunks) : Len(audio_chunks[i]) < K) =>
        final_audio.ok

\* C18: with two or more segments and a negative crossfade duration the call
\* ends with an error and returns no waveform.
C18_NegativeCrossfadeRejected ==
    (/\ apc = "combined"
     /\ Len(audio_chunks) >= 2
     /\ \E i \in 1..Len(audio_chunks) : Len(audio_chunks[i]) >= 1
     /\ crossfade_duration < 0) =>
        ~final_audio.ok

(***************************************************************************)
(*                 Claims about the outcomes of a client call              *)
(***************************************************************************)

\* C12: once the caller has asked for cancellation, the next pass through the
\* top of the poll loop ends the call with an error result; no further status
\* request is made.
C12_CancelStopsPolling ==
    [][(cancel_requested /\ pc = "loop" /\ pc' # "loop") =>
          (pc' = "done" /\ result'.returned /\ ~result'.ok)]_vars

\* The messages generate_tts can return for a poll that reports FAILED.
FailedMsgs ==
    {PollResult("generate_tts", o).msg :
        o \in {p \in PollOutcomes : p.kind = "json" /\ p.status = "FAILED"}}

\* C13: when the last poll reports COMPLETED and its audio payload is missing
\* or cannot be decoded, generate_tts returns no audio and a non-empty error
\* that is none of the errors returned for a FAILED job.
C13_BadPayloadIsDistinctError ==
    (/\ pc = "done"
     /\ method = "generate_tts"
     /\ lastPoll.kind = "json"
     /\ lastPoll.status = "COMPLETED"
     /\ lastPoll.output \in {"absent", "null", "no_audio", "corrupt"}) =>
        /\ result.audio = "None"
        /\ ~result.ok
        /\ result.msg # ""
        /\ result.msg \notin FailedMsgs

(***************************************************************************)
(*             Claims about a request all of whose chunks fail             *)
(***************************************************************************)

\* C14: when every synthesis that was run for a request failed, the request
\* ends with an error (HTTP 500), with no assembled samples and no audio of
\* any chunk.
C14_AllFailedNoAudio ==
    (ppc = "done" /\ attempted # {} /\ attempted \subseteq failed) =>
        /\ outcome = "http_500"
        /\ final_audio = Array(<<>>)
        /\ audio_chunks = <<>>

C14_Witness ==
    /\ ppc = "done"
    /\ Len(text_chunks) >= 2
    /\ attempted = {1}
    /\ failed = {1}
    /\ outcome = "http_500"
    /\ attempt = 1

(***************************************************************************)
(*            Claims about max_words <= 0 and sentence marking             *)
(***************************************************************************)

\* C15: for max_words <= 0 the call returns the chunk list of max_words = 1,
\* and no chunk with an empty text.
C15_MaxWordsClamped ==
    (cpc = "chunked" /\ max_words <= 0) =>
        /\ chunks = chunk_text(text, 1)
        /\ \A i \in 1..Len(chunks) : chunks[i].text # <<>>

\* The text ends with sentence-terminal punctuation, optionally followed by
\* closing quotes or brackets.
EndsWithTerminal(s) ==
    \E i \in 1..Len(s) :
        /\ s[i] \in Terminals
        /\ \A j \in (i + 1)..Len(s) : s[j] \in Closers \ Spaces

\* C16: a chunk is marked is_complete_sentence only if its text ends with
\* terminal punctuation, and the last chunk of the list (the final chunk, or
\* the last sub-chunk of a split sentence) is marked so exactly when it does.
C16_CompleteSentenceMark ==
    cpc = "chunked" =>
        /\ \A i \in 1..Len(chunks) :
              chunks[i].is_complete_sentence => EndsWithTerminal(chunks[i].text)
        /\ Len(chunks) >= 1 =>
              (chunks[Len(chunks)].is_complete_sentence
                  <=> EndsWithTerminal(chunks[Len(chunks)].text))

\* The closed set of status strings of the wire contract.
ContractStatuses == {"QUEUED", "RUNNING", "COMPLETED", "FAILED", "CANCELLED"}

\* C17: a status response whose status string is outside the closed set ends
\* the call with an error; the call does not go on to sleep and poll again.
C17_UnknownStatusRejected ==
    (lastPoll.kind = "json" /\ lastPoll.status \notin ContractStatuses) =>
        (pc = "done" /\ result.returned /\ ~result.ok)

\* C20: generate_speech returns a pair (audio_data, error); for a job that
\* completes audio_data is the audio and error is empty, for a job that fails
\* error is not empty.
C20_SpeechReturnsAudioAndError ==
    (/\ pc = "done"
     /\ method = "generate_speech"
     /\ lastPoll.kind = "json"
     /\ lastPoll.error = "absent") =>
        /\ result.type = "tuple"
        /\ lastPoll.status = "COMPLETED" => (result.audio # "None" /\ result.msg = "")
        /\ lastPoll.status = "FAILED" => result.msg # ""

(***************************************************************************)
(*                     Claims about normalize_audio                        *)
(***************************************************************************)

\* C19: for a buffer of at least one sample whose samples are all zero,
\* normalize_audio returns a buffer equal to its input: all zeros, no nan and
\* no infinite sample, for every target level and both methods.
C19_SilenceUnchanged ==
    (/\ npc = "normalized"
     /\ Len(audio_data) >= 1
     /\ \A i \in 1..Len(audio_data) : audio_data[i] = 0) =>
        /\ normalized_audio.ok
        /\ normalized_audio.arr = [i \in 1..Len(audio_data) |-> Num(audio_data[i])]

C19_Witness ==
    /\ npc = "normalized"
    /\ audio_data = <<0, 0>>
    /\ norm_method = "peak"
    /\ target_db = -18
    /\ normalized_audio = Array(<<Num(0), Num(0)>>)

\* C21: in clone_voice the count of consecutive timed-out status requests
\* stays between 0 and max_consecutive_timeouts and is 0 after every status
\* request that succeeded; the call has returned the endpoint-is-not-responding
\* error exactly when the last max_consecutive_timeouts status requests in a
\* row timed out (timeoutsInRow counts them independently of the code's own
\* counter).
C21_ConsecutiveTimeouts ==
    method = "clone_voice" =>
        /\ consecutive_timeouts \in 0..max_consecutive_timeouts
        /\ lastPoll.kind = "json" => consecutive_timeouts = 0
        /\ (pc = "done" /\ result.msg = TooManyTimeoutsMsg)
            <=> (pc = "done" /\ lastPoll.kind = "timeout"
                 /\ timeoutsInRow = max_consecutive_timeouts)
        /\ pc # "done" => timeoutsInRow < max_consecutive_timeouts

\* The third timeout in a row ended a call whose earlier polls had been
\* answered: three timeouts and two sleeps alone take 40 seconds.
C21_Witness ==
    /\ method = "clone_voice"
    /\ pc = "done"
    /\ result = Failure("clone_voice", TooManyTimeoutsMsg)
    /\ timeoutsInRow = max_consecutive_timeouts
    /\ elapsed > 3 * status_request_timeout + 2 * poll_interval("clone_voice")

\* C30: in convert_voice a status request that timed out never ends the call
\* by itself (the next step is the sleep before the next poll, however many
\* timeouts came before); a call whose last status request timed out has
\* ended only with the timed-out error and with more than max_wait_time
\* seconds elapsed; and every call eventually ends.
C30_TimeoutsRetriedUntilBudget ==
    /\ [][(method = "convert_voice" /\ pc = "poll" /\ lastPoll'.kind = "timeout")
            => (pc' = "sleep" /\ result' = NoResult)]_vars
    /\ [](method = "convert_voice" /\ pc = "done" /\ lastPoll.kind = "timeout"
            => /\ result = Failure("convert_voice", "Voice conversion timed out after 10 minutes")
               /\ elapsed > max_wait_time("convert_voice"))
    /\ <>(pc = "done")

\* Every status request of the call timed out (each took the request
\* timeout and was followed by one sleep), far more than
\* max_consecutive_timeouts of them, and the call ended on the budget.
C30_Witness ==
    /\ method = "convert_voice"
    /\ pc = "done"
    /\ result = Failure("convert_voice", BudgetMsg("convert_voice"))
    /\ timeoutsInRow > 10 * max_consecutive_timeouts
    /\ elapsed = timeoutsInRow * (status_request_timeout + poll_interval("convert_voice"))

\* C22: the chunk_number of the i-th chunk of the list returned by
\* chunk_text is i, counted from 0.
C22_ChunkNumbersAreIndexes ==
    cpc = "chunked" =>
        \A i \in 1..Len(chunks) : chunks[i].chunk_number = i - 1

\* A list of three or more chunks, some made by the forced split of a long
\* sentence and one recognised as the end of a sentence.
C22_Witness ==
    /\ cpc = "chunked"
    /\ Len(chunks) >= 3
    /\ \E i \in 1..Len(chunks) : ~chunks[i].is_complete_sentence
    /\ \E i \in 1..Len(chunks) : chunks[i].is_complete_sentence
    /\ \A i \in 1..Len(chunks) : chunks[i].chunk_number = i - 1

\* C29: the character spans [start_index, end_index) of the chunks returned
\* by chunk_text are ordered and do not overlap (stated for max_words >= 1).
C29_SpansOrdered ==
    cpc = "chunked" /\ max_words >= 1 =>
        /\ \A i \in 1..Len(chunks) : chunks[i].start_index <= chunks[i].end_index
        /\ \A i \in 2..Len(chunks) : chunks[i].start_index >= chunks[i - 1].end_index

\* C24: adaptive_chunk_text(text, max_words, reduce_on_error=True) with
\* max_words >= 1 returns a chunk list: no call ends in an exception raised
\* by its own recursion.
C24_AdaptiveReturns == cpc # "RecursionError"

\* C25: every chunk that chunk_text_by_sentences returns for chunk_size >= 1
\* has at most chunk_size whitespace-separated words.
C25_SentenceChunkWordBound ==
    cpc = "by_sentences" =>
        \A k \in 1..Len(chunks) : Len(split(chunks[k])) <= max_words

\* The calls of self.model.generate made for chunk number c, in order.
CallsFor(c) == SelectSeq(calls, LAMBDA k : k.chunk = c)

\* C23: when generate_with_retry started on the GPU and every call of the
\* model failed with a CUDA / out-of-memory RuntimeError, the model was
\* called max_retries times before the error was re-raised.
C23_RetriesUntilMaxRetries ==
    (ppc = "done" /\ failed # {}) =>
        \A c \in failed :
            LET cs == CallsFor(c)
            IN (/\ Len(cs) > 0
                /\ cs[1].device = "cuda"
                /\ \A k \in 1..Len(cs) : cs[k].outcome = "cuda_oom")
               => Len(cs) = max_retries

\* C26: the engine's device never changes from 'cpu' to anything else, and
\* after a call of the model that ran on the CPU every later call runs on
\* the CPU, with the CPU model.
C26_DeviceOnlyFallsBack ==
    /\ [][device = "cpu" => device' = "cpu"]_vars
    /\ [][device' # device => (device = "cuda" /\ device' = "cpu")]_vars
    /\ [](\A i, j \in 1..Len(calls) :
            (i < j /\ calls[i].device = "cpu")
                => (calls[j].device = "cpu" /\ calls[j].model = "cpu"))

\* A call fell back to the CPU after an out-of-memory error on the GPU and
\* a later chunk was then generated by the CPU model.
C26_Witness ==
    \E i, j \in 1..Len(calls) :
        /\ i < j
        /\ calls[i].device = "cuda"
        /\ calls[i].outcome = "cuda_oom"
        /\ calls[j].device = "cpu"
        /\ calls[j].model = "cpu"
        /\ calls[j].outcome = "ok"
        /\ calls[j].chunk > calls[i].chunk
        /\ device = "cpu"

\* C27: no request built by a method of RunPodClient is answered with the
\* 'Unknown request type' error: each is dispatched to a request handler.
C27_ClientTypesDispatched ==
    (request.origin \in ClientMethods /\ hpc = "done")
        => response.error # "Unknown request type"

\* C28: when the handler has returned from a tts or voice_convert request,
\* no temporary directory or file it created exists any more.
C28_TempDirsRemoved ==
    (hpc = "done" /\ request.type \in {"tts", "voice_convert"}) => temp_files = {}

=============================================================================
